---- MODULE Spec2Model ----
(***************************************************************************)
(* PawPal: Task / Pet / Owner / Scheduler of src/pawpal_system.py as a     *)
(* state machine.  Objects live on heaps and are named by their index:     *)
(* heap[t] is the Task object t, pets[p] the Pet object p (Owner.pets, in  *)
(* the order of addPet).  Durations and budgets are whole minutes.         *)
(***************************************************************************)
EXTENDS Integers, Sequences, FiniteSets, TLC

VARIABLES
    today,          \* what date.today() returns
    heap,           \* Task objects, by identity
    pets,           \* Owner.pets: Pet objects, each with its list of task identities
    dailyTimeAval,  \* Owner.dailyTimeAval
    schedule,       \* Scheduler.schedule: insertion-ordered dict id(pet) -> (pet, tasks)
    conflicts,      \* Scheduler.conflicts
    lastCall,       \* the call that was made last: its name, receiver, argument
    ret             \* what that call returned

vars == <<today, heap, pets, dailyTimeAval, schedule, conflicts, lastCall, ret>>

-----------------------------------------------------------------------------
(* Bounds of the model. *)

MaxLen == 3         \* tasks of the pet drawn for the prioritisation runs
MaxDur == 2         \* longest task duration drawn
MaxPri == 2         \* highest priority drawn (priorities start at 1)
MaxBudget == 3      \* largest dailyTimeAval drawn (the smallest is -1)
BaseYear == 2024    \* first calendar year of the dates drawn
YearSpan == 1       \* number of further years
TodayMonths == 1    \* today is drawn from the first months of the last year

-----------------------------------------------------------------------------
(* Optional values: Python's None, or a value. *)

None == <<>>
Some(x) == <<x>>
Val(o) == o[1]

Range(s) == {s[i] : i \in DOMAIN s}

RECURSIVE SumOver(_, _)
SumOver(f, S) ==
    IF S = {} THEN 0
    ELSE LET x == CHOOSE y \in S : TRUE IN f[x] + SumOver(f, S \ {x})

-----------------------------------------------------------------------------
(* datetime.date: the proleptic Gregorian calendar. *)

IsLeap(y) == (y % 4 = 0) /\ ((y % 100 # 0) \/ (y % 400 = 0))

DaysInMonth(y, m) ==
    IF m = 2 THEN (IF IsLeap(y) THEN 29 ELSE 28)
    ELSE IF m \in {4, 6, 9, 11} THEN 30 ELSE 31

Years == BaseYear .. (BaseYear + YearSpan)

Dates == {d \in [year : Years, month : 1..12, day : 1..31] :
            d.day <= DaysInMonth(d.year, d.month)}

RECURSIVE DaysBeforeYear(_)
DaysBeforeYear(y) ==
    IF y <= BaseYear THEN 0
    ELSE DaysBeforeYear(y - 1) + (IF IsLeap(y - 1) THEN 366 ELSE 365)

RECURSIVE DaysBeforeMonth(_, _)
DaysBeforeMonth(y, m) ==
    IF m <= 1 THEN 0 ELSE DaysBeforeMonth(y, m - 1) + DaysInMonth(y, m - 1)

\* date.toordinal(), counted from 1 January of BaseYear
ToOrdinal(d) == DaysBeforeYear(d.year) + DaysBeforeMonth(d.year, d.month) + d.day

\* (a - b).days
DaysBetween(a, b) == ToOrdinal(a) - ToOrdinal(b)

\* d + timedelta(days=1)
NextDate(d) ==
    IF d.day < DaysInMonth(d.year, d.month) THEN [d EXCEPT !.day = d.day + 1]
    ELSE IF d.month < 12 THEN [d EXCEPT !.month = d.month + 1, !.day = 1]
    ELSE [year |-> d.year + 1, month |-> 1, day |-> 1]

-----------------------------------------------------------------------------
(* class Frequency, class Task *)

DAILY == "daily"
WEEKLY == "weekly"
MONTHLY == "monthly"
AS_NEEDED == "as_needed"
Frequency == {DAILY, WEEKLY, MONTHLY, AS_NEEDED}

\* Task(name, duration, priority, taskType, frequency, completed, last_completed, time)
Task(name, duration, priority, taskType, frequency, completed, last_completed, time) ==
    [name |-> name, duration |-> duration, priority |-> priority,
     taskType |-> taskType, frequency |-> frequency, completed |-> completed,
     last_completed |-> last_completed, time |-> time]

\* A mutant of isDueToday: the weekly interval compared with > instead of >=.
isDueTodayStrictWeek(task, day) ==
    IF task.frequency = DAILY THEN task.last_completed # Some(day)
    ELSE IF task.frequency = WEEKLY
        THEN task.last_completed = None
             \/ DaysBetween(day, Val(task.last_completed)) > 7
    ELSE IF task.frequency = MONTHLY
        THEN task.last_completed = None
             \/ day.month # Val(task.last_completed).month
    ELSE TRUE

\* A mutant of isDueToday: the monthly check also compares the year.
isDueTodayWithYear(task, day) ==
    IF task.frequency = DAILY THEN task.last_completed # Some(day)
    ELSE IF task.frequency = WEEKLY
        THEN task.last_completed = None
             \/ DaysBetween(day, Val(task.last_completed)) >= 7
    ELSE IF task.frequency = MONTHLY
        THEN task.last_completed = None
             \/ day.month # Val(task.last_completed).month
             \/ day.year # Val(task.last_completed).year
    ELSE TRUE

\* Task.isDueToday, with today = day
isDueToday(task, day) ==
    IF task.frequency = DAILY THEN task.last_completed # Some(day)
    ELSE IF task.frequency = WEEKLY
        THEN task.last_completed = None
             \/ DaysBetween(day, Val(task.last_completed)) >= 7
    ELSE IF task.frequency = MONTHLY
        THEN task.last_completed = None
             \/ day.month # Val(task.last_completed).month
    ELSE TRUE

\* A mutant of create_next_instance: the next instance keeps the date its
\* original was completed on.
create_next_instanceKeepsDate(task) == [task EXCEPT !.completed = FALSE]

\* Task._create_next_instance: a new Task; next_due_date is not used
create_next_instance(task) ==
    Task(task.name, task.duration, task.priority, task.taskType, task.frequency,
         FALSE, None, task.time)

\* A mutant of completedTask: the call flips the flag.
completedTaskFlipped(task, day) ==
    [task EXCEPT !.completed = ~@, !.last_completed = Some(day)]

\* A mutant of completedTask: the date of completion is not recorded.
completedTaskNoDate(task, day) == [task EXCEPT !.completed = TRUE]

\* A mutant of completedTask: completing a task clears its scheduled time.
completedTaskNoTime(task, day) ==
    [task EXCEPT !.completed = TRUE, !.last_completed = Some(day), !.time = None]

\* Task.mark_complete: the receiver after the call
completedTask(task, day) ==
    [task EXCEPT !.completed = TRUE, !.last_completed = Some(day)]

\* Task.mark_complete: whether the call returns a next instance
createsNextInstance(task) == task.frequency \in {DAILY, WEEKLY}

-----------------------------------------------------------------------------
(* class Pet, class Owner *)

Pet(name, species) == [name |-> name, species |-> species, tasks |-> <<>>]

RECURSIVE FilterSeq(_, _)
FilterSeq(s, keep) ==
    IF s = <<>> THEN <<>>
    ELSE (IF Head(s) \in keep THEN <<Head(s)>> ELSE <<>>) \o FilterSeq(Tail(s), keep)

\* Pet.getTasksDueToday: the pet's due tasks, in list order
Pet_getTasksDueToday(h, pet, day) ==
    FilterSeq(pet.tasks, {t \in Range(pet.tasks) : isDueToday(h[t], day)})

\* A mutant of Owner_getTasksDueTodayFrom: a pet with no due task is listed
\* too, with an empty list.
RECURSIVE Owner_getTasksDueTodayFromEveryPet(_, _, _, _)
Owner_getTasksDueTodayFromEveryPet(h, ps, day, i) ==
    IF i > Len(ps) THEN <<>>
    ELSE <<[pet |-> i, tasks |-> Pet_getTasksDueToday(h, ps[i], day)]>>
            \o Owner_getTasksDueTodayFromEveryPet(h, ps, day, i + 1)

\* Owner.getTasksDueToday: (pet, due tasks) for the pets from index i on,
\* a pet with no due task left out
RECURSIVE Owner_getTasksDueTodayFrom(_, _, _, _)
Owner_getTasksDueTodayFrom(h, ps, day, i) ==
    IF i > Len(ps) THEN <<>>
    ELSE LET due_tasks == Pet_getTasksDueToday(h, ps[i], day) IN
         (IF due_tasks # <<>> THEN <<[pet |-> i, tasks |-> due_tasks]>> ELSE <<>>)
            \o Owner_getTasksDueTodayFrom(h, ps, day, i + 1)

Owner_getTasksDueToday(h, ps, day) == Owner_getTasksDueTodayFrom(h, ps, day, 1)

-----------------------------------------------------------------------------
(* class Scheduler: prioritizeTasks *)

\* A mutant of sortKeyLE: among equal priorities the longer task first.
sortKeyLELongestFirst(a, b) ==
    (a.priority > b.priority)
    \/ (a.priority = b.priority /\ a.duration >= b.duration)

\* A mutant of sortKeyLE: the lowest priority first.
sortKeyLELowestFirst(a, b) ==
    (a.priority < b.priority)
    \/ (a.priority = b.priority /\ a.duration <= b.duration)

\* key(a) <= key(b) for key = lambda t: (-t.priority, t.duration)
sortKeyLE(a, b) ==
    (a.priority > b.priority)
    \/ (a.priority = b.priority /\ a.duration <= b.duration)

\* A mutant of insertSorted: a task goes before the tasks of the same key.
insertSortedBeforeEqual(h, sorted, t) ==
    LET before == {i \in 1..Len(sorted) : ~sortKeyLE(h[t], h[sorted[i]])}
        n == Cardinality(before)
    IN SubSeq(sorted, 1, n) \o <<t>> \o SubSeq(sorted, n + 1, Len(sorted))

\* sorted() is stable: a task goes after every task whose key is not greater
insertSorted(h, sorted, t) ==
    LET before == {i \in 1..Len(sorted) : sortKeyLE(h[sorted[i]], h[t])}
        n == Cardinality(before)
    IN SubSeq(sorted, 1, n) \o <<t>> \o SubSeq(sorted, n + 1, Len(sorted))

RECURSIVE sortedTasksOnto(_, _, _)
sortedTasksOnto(h, sorted, tasks) ==
    IF tasks = <<>> THEN sorted
    ELSE sortedTasksOnto(h, insertSorted(h, sorted, Head(tasks)), Tail(tasks))

\* sorted(tasks, key=lambda t: (-t.priority, t.duration))
sorted_tasks(h, tasks) == sortedTasksOnto(h, <<>>, tasks)

\* A mutant of fits: the budget compared with < instead of <=.
fitsStrictly(total_duration, duration, budget) == total_duration + duration < budget

\* A mutant of fits: every task is taken.
fitsAlways(total_duration, duration, budget) == TRUE

\* A mutant of fits: a task is taken whenever some budget is left.
fitsWhileBudgetLeft(total_duration, duration, budget) == total_duration <= budget

\* total_duration + task.duration <= self.owner.dailyTimeAval
fits(total_duration, duration, budget) == total_duration + duration <= budget

\* A mutant of scheduled_tasks: the loop ends at the first task that does
\* not fit.
RECURSIVE scheduled_tasksUntilSkip(_, _, _, _)
scheduled_tasksUntilSkip(h, sorted, budget, total_duration) ==
    IF sorted = <<>> THEN <<>>
    ELSE LET task == Head(sorted) IN
         IF fits(total_duration, h[task].duration, budget)
         THEN <<task>> \o scheduled_tasksUntilSkip(h, Tail(sorted), budget,
                                                   total_duration + h[task].duration)
         ELSE <<>>

\* the loop over sorted_tasks, with total_duration minutes committed so far
RECURSIVE scheduled_tasks(_, _, _, _)
scheduled_tasks(h, sorted, budget, total_duration) ==
    IF sorted = <<>> THEN <<>>
    ELSE LET task == Head(sorted) IN
         IF fits(total_duration, h[task].duration, budget)
         THEN <<task>> \o scheduled_tasks(h, Tail(sorted), budget,
                                          total_duration + h[task].duration)
         ELSE scheduled_tasks(h, Tail(sorted), budget, total_duration)

\* Scheduler.prioritizeTasks
prioritizeTasks(h, tasks, budget) ==
    scheduled_tasks(h, sorted_tasks(h, tasks), budget, 0)

-----------------------------------------------------------------------------
(* class Scheduler: genDailyPlan, detectScheduleConflicts *)

\* self.schedule[key] = value on an insertion-ordered dict
dictSet(d, key, value) ==
    IF \E i \in 1..Len(d) : d[i].pet = key
    THEN [i \in 1..Len(d) |-> IF d[i].pet = key THEN value ELSE d[i]]
    ELSE Append(d, value)

\* A mutant of planned: the minutes given to a pet are taken off the budget
\* of the pets after it.
RECURSIVE plannedOnSharedBudget(_, _, _, _)
plannedOnSharedBudget(h, schedule_list, budget, sched) ==
    IF schedule_list = <<>> THEN sched
    ELSE LET e == Head(schedule_list)
             chosen == prioritizeTasks(h, e.tasks, budget)
             spent == SumOver([k \in 1..Len(chosen) |-> h[chosen[k]].duration],
                              1..Len(chosen))
         IN plannedOnSharedBudget(h, Tail(schedule_list), budget - spent,
                 dictSet(sched, e.pet, [pet |-> e.pet, tasks |-> chosen]))

\* the loop of genDailyPlan over schedule_list, filling self.schedule
RECURSIVE planned(_, _, _, _)
planned(h, schedule_list, budget, sched) ==
    IF schedule_list = <<>> THEN sched
    ELSE LET e == Head(schedule_list) IN
         planned(h, Tail(schedule_list), budget,
                 dictSet(sched, e.pet,
                         [pet |-> e.pet, tasks |-> prioritizeTasks(h, e.tasks, budget)]))

\* the (pet, task) pairs in the order the two loops over self.schedule visit them
RECURSIVE scheduledPairs(_)
scheduledPairs(sched) ==
    IF sched = <<>> THEN <<>>
    ELSE [i \in 1..Len(Head(sched).tasks) |->
            [pet |-> Head(sched).pet, task |-> Head(sched).tasks[i]]]
         \o scheduledPairs(Tail(sched))

\* A mutant of hasTime: only None counts as no time, the empty string is one.
hasTimeNotNone(time) == time # None

\* "if task.time": neither None nor the empty string
hasTime(time) == time # None /\ Val(time) # <<>>

\* time_map[task.time].append((pet.name, task.name)), the key made when new
timeMapAppend(time_map, time, item) ==
    IF \E i \in 1..Len(time_map) : time_map[i].scheduled_time = time
    THEN [i \in 1..Len(time_map) |->
            IF time_map[i].scheduled_time = time
            THEN [time_map[i] EXCEPT !.task_list = Append(@, item)]
            ELSE time_map[i]]
    ELSE Append(time_map, [scheduled_time |-> time, task_list |-> <<item>>])

RECURSIVE buildTimeMap(_, _, _, _)
buildTimeMap(h, ps, pairs, time_map) ==
    IF pairs = <<>> THEN time_map
    ELSE LET task == h[Head(pairs).task]
             pet == ps[Head(pairs).pet]
         IN IF hasTime(task.time)
            THEN buildTimeMap(h, ps, Tail(pairs),
                    timeMapAppend(time_map, Val(task.time),
                                  [pet_name |-> pet.name, task_name |-> task.name]))
            ELSE buildTimeMap(h, ps, Tail(pairs), time_map)

\* A mutant of isConflict: a single task at a time is reported too.
isConflictFromOne(task_list) == Len(task_list) >= 1

\* len(task_list) > 1
isConflict(task_list) == Len(task_list) > 1

RECURSIVE warningsOf(_)
warningsOf(time_map) ==
    IF time_map = <<>> THEN <<>>
    ELSE (IF isConflict(Head(time_map).task_list) THEN <<Head(time_map)>> ELSE <<>>)
         \o warningsOf(Tail(time_map))

\* Scheduler.detectScheduleConflicts.  A warning is the text
\* "Conflict at {scheduled_time}: {task_name} ({pet_name}), ...": here its
\* time and the (pet name, task name) pairs it lists, in order.
detectScheduleConflicts(h, ps, sched) ==
    warningsOf(buildTimeMap(h, ps, scheduledPairs(sched), <<>>))

-----------------------------------------------------------------------------
(* More bounds, and the values the calls are made with. *)

MaxTasks == 3       \* Task objects created in a run of Spec
MaxPets == 2        \* Pet objects created in a run of Spec
MaxPlanTasks == 3   \* tasks of the two pets drawn for the planning runs

\* "HH:MM" strings, character by character
T0900 == <<"0", "9", ":", "0", "0">>
T1400 == <<"1", "4", ":", "0", "0">>
EmptyStr == <<>>

StartDate == [year |-> BaseYear + YearSpan, month |-> 1, day |-> 31]

Budgets == (0 - 1) .. MaxBudget

PetKinds == {<<"Buddy", "dog">>, <<"Whiskers", "cat">>}

\* The tasks created in a run of Spec: two of them at the same time, one without
TaskCatalog ==
    { Task("Feed", 1, 2, "feeding", DAILY, FALSE, None, Some(T0900)),
      Task("Walk", 2, 1, "exercise", WEEKLY, FALSE, None, Some(T0900)),
      Task("Vet", 2, 2, "health", MONTHLY, FALSE, None, None) }

Call(op, p, t) == [op |-> op, pet |-> p, task |-> t]

-----------------------------------------------------------------------------
(* The calls. *)

\* pet = Pet(name, species); owner.addPet(pet)
Owner_addPet(name, species) ==
    /\ Len(pets) < MaxPets
    /\ pets' = Append(pets, Pet(name, species))
    /\ lastCall' = Call("addPet", Len(pets) + 1, 0)
    /\ ret' = None
    /\ UNCHANGED <<today, heap, dailyTimeAval, schedule, conflicts>>

\* A mutant of Owner_updateTimeAval: the plan is made anew for the new budget.
Owner_updateTimeAvalReplans(time) ==
    /\ dailyTimeAval' = time
    /\ schedule' = planned(heap, Owner_getTasksDueToday(heap, pets, today), time, <<>>)
    /\ conflicts' = detectScheduleConflicts(heap, pets, schedule')
    /\ lastCall' = Call("updateTimeAval", 0, 0)
    /\ ret' = None
    /\ UNCHANGED <<today, heap, pets>>

\* owner.updateTimeAval(time)
Owner_updateTimeAval(time) ==
    /\ dailyTimeAval' = time
    /\ lastCall' = Call("updateTimeAval", 0, 0)
    /\ ret' = None
    /\ UNCHANGED <<today, heap, pets, schedule, conflicts>>

\* task = Task(...); pets[p].addTask(task)
Pet_addTask(p, task) ==
    /\ Len(heap) < MaxTasks
    /\ heap' = Append(heap, task)
    /\ pets' = [pets EXCEPT ![p].tasks = Append(@, Len(heap) + 1)]
    /\ lastCall' = Call("addTask", p, Len(heap) + 1)
    /\ ret' = None
    /\ UNCHANGED <<today, dailyTimeAval, schedule, conflicts>>

\* heap[t].isDueToday()
Task_isDueToday(t) ==
    /\ lastCall' = Call("isDueToday", 0, t)
    /\ ret' = isDueToday(heap[t], today)
    /\ UNCHANGED <<today, heap, pets, dailyTimeAval, schedule, conflicts>>

\* A mutant of heapAfterComplete: the next instance shares the receiver's state.
heapAfterCompleteCopy(h, t, day) ==
    LET done == [h EXCEPT ![t] = completedTask(h[t], day)] IN
    IF createsNextInstance(h[t]) THEN Append(done, done[t]) ELSE done

\* A mutant of heapAfterComplete: the receiver is reset instead of completed.
heapAfterCompleteReset(h, t, day) ==
    LET done == [h EXCEPT ![t] = create_next_instance(h[t])] IN
    IF createsNextInstance(h[t])
    THEN Append(done, create_next_instance(done[t]))
    ELSE done

\* A mutant of heapAfterComplete: every frequency gets a next instance.
heapAfterCompleteAlways(h, t, day) ==
    LET done == [h EXCEPT ![t] = completedTask(h[t], day)] IN
    Append(done, create_next_instance(done[t]))

\* Task.mark_complete on heap[t]: the Task objects after the call; the next
\* instance, if one is created, is the new last object
heapAfterComplete(h, t, day) ==
    LET done == [h EXCEPT ![t] = completedTask(h[t], day)] IN
    IF createsNextInstance(h[t])
    THEN Append(done, create_next_instance(done[t]))
    ELSE done

\* Task.mark_complete on heap[t]: what the call returns
nextInstance(h, h2) == IF Len(h2) > Len(h) THEN Some(Len(h2)) ELSE None

\* heap[t].mark_complete()
Task_mark_complete(t) ==
    /\ createsNextInstance(heap[t]) => Len(heap) < MaxTasks
    /\ heap' = heapAfterComplete(heap, t, today)
    /\ lastCall' = Call("mark_complete", 0, t)
    /\ ret' = nextInstance(heap, heap')
    /\ UNCHANGED <<today, pets, dailyTimeAval, schedule, conflicts>>

\* A mutant of tasksAfterComplete: the next instance goes to the front.
tasksAfterCompleteFront(tasks, next_task) ==
    IF next_task # None THEN <<Val(next_task)>> \o tasks ELSE tasks

\* A mutant of tasksAfterComplete: the next instance replaces the last task.
tasksAfterCompleteReplace(tasks, next_task) ==
    IF next_task # None /\ tasks # <<>>
    THEN [tasks EXCEPT ![Len(tasks)] = Val(next_task)]
    ELSE IF next_task # None THEN <<Val(next_task)>> ELSE tasks

\* "if next_task: self.addTask(next_task)"
tasksAfterComplete(tasks, next_task) ==
    IF next_task # None THEN Append(tasks, Val(next_task)) ELSE tasks

\* A mutant of Pet_complete_task: nothing is done for a task that is already
\* completed or is not in the pet's list.
Pet_complete_taskGuarded(p, t) ==
    LET guarded == heap[t].completed \/ t \notin Range(pets[p].tasks) IN
    /\ (~guarded /\ createsNextInstance(heap[t])) => Len(heap) < MaxTasks
    /\ heap' = IF guarded THEN heap ELSE heapAfterComplete(heap, t, today)
    /\ ret' = nextInstance(heap, heap')
    /\ pets' = [pets EXCEPT ![p].tasks = tasksAfterComplete(@, ret')]
    /\ lastCall' = Call("complete_task", p, t)
    /\ UNCHANGED <<today, dailyTimeAval, schedule, conflicts>>

\* pets[p].complete_task(heap[t])
Pet_complete_task(p, t) ==
    /\ createsNextInstance(heap[t]) => Len(heap) < MaxTasks
    /\ heap' = heapAfterComplete(heap, t, today)
    /\ ret' = nextInstance(heap, heap')
    /\ pets' = [pets EXCEPT ![p].tasks = tasksAfterComplete(@, ret')]
    /\ lastCall' = Call("complete_task", p, t)
    /\ UNCHANGED <<today, dailyTimeAval, schedule, conflicts>>

\* scheduler.prioritizeTasks(pets[p].getTasks())
Scheduler_prioritizeTasks(p) ==
    /\ lastCall' = Call("prioritizeTasks", p, 0)
    /\ ret' = prioritizeTasks(heap, pets[p].tasks, dailyTimeAval)
    /\ UNCHANGED <<today, heap, pets, dailyTimeAval, schedule, conflicts>>

\* A mutant of Scheduler_genDailyPlan: self.schedule is not emptied first.
Scheduler_genDailyPlanOntoOldPlan ==
    LET schedule_list == Owner_getTasksDueToday(heap, pets, today) IN
    /\ schedule' = planned(heap, schedule_list, dailyTimeAval, schedule)
    /\ conflicts' = detectScheduleConflicts(heap, pets, schedule')
    /\ lastCall' = Call("genDailyPlan", 0, 0)
    /\ ret' = schedule_list
    /\ UNCHANGED <<today, heap, pets, dailyTimeAval>>

\* scheduler.genDailyPlan()
Scheduler_genDailyPlan ==
    LET schedule_list == Owner_getTasksDueToday(heap, pets, today) IN
    /\ schedule' = planned(heap, schedule_list, dailyTimeAval, <<>>)
    /\ conflicts' = detectScheduleConflicts(heap, pets, schedule')
    /\ lastCall' = Call("genDailyPlan", 0, 0)
    /\ ret' = schedule_list
    /\ UNCHANGED <<today, heap, pets, dailyTimeAval>>

\* scheduler.getConflictWarnings()
Scheduler_getConflictWarnings ==
    /\ lastCall' = Call("getConflictWarnings", 0, 0)
    /\ ret' = conflicts
    /\ UNCHANGED <<today, heap, pets, dailyTimeAval, schedule, conflicts>>

-----------------------------------------------------------------------------
(* class Scheduler: sortByTime.  A time string is the tuple of its          *)
(* characters; parse_time works on the characters as str.split and int do.  *)

MaxSortLen == 3     \* tasks of the list drawn for the sorting runs

Digits == <<"0", "1", "2", "3", "4", "5", "6", "7", "8", "9">>

IsDigit(c) == \E i \in 1..10 : Digits[i] = c

DigitValue(c) == (CHOOSE i \in 1..10 : Digits[i] = c) - 1

\* str.split(sep): the pieces between the separators, "" giving [""]
RECURSIVE split(_, _)
split(str, sep) ==
    IF \A i \in 1..Len(str) : str[i] # sep THEN <<str>>
    ELSE LET k == CHOOSE i \in 1..Len(str) :
                    str[i] = sep /\ \A j \in 1..(i - 1) : str[j] # sep
         IN <<SubSeq(str, 1, k - 1)>> \o split(SubSeq(str, k + 1, Len(str)), sep)

\* str.strip(): without the blanks at either end
RECURSIVE strip(_)
strip(str) ==
    IF str = <<>> THEN str
    ELSE IF Head(str) = " " THEN strip(Tail(str))
    ELSE IF str[Len(str)] = " " THEN strip(SubSeq(str, 1, Len(str) - 1))
    ELSE str

\* the value of a run of digits with single underscores between them
RECURSIVE digitsValue(_, _)
digitsValue(str, acc) ==
    IF str = <<>> THEN acc
    ELSE IF Head(str) = "_" THEN digitsValue(Tail(str), acc)
    ELSE digitsValue(Tail(str), 10 * acc + DigitValue(Head(str)))

\* int(str): blanks around, an optional sign, digits; ok is false where int
\* raises ValueError
int(str) ==
    LET s == strip(str)
        signed == s # <<>> /\ Head(s) \in {"+", "-"}
        body == IF signed THEN Tail(s) ELSE s
        wellFormed ==
            /\ body # <<>>
            /\ \A i \in 1..Len(body) : IsDigit(body[i]) \/ body[i] = "_"
            /\ IsDigit(body[1]) /\ IsDigit(body[Len(body)])
            /\ \A i \in 1..(Len(body) - 1) : ~(body[i] = "_" /\ body[i + 1] = "_")
    IN IF ~wellFormed THEN [ok |-> FALSE, value |-> 0]
       ELSE [ok |-> TRUE,
             value |-> IF signed /\ Head(s) = "-"
                       THEN 0 - digitsValue(body, 0) ELSE digitsValue(body, 0)]

\* the sort keys: float('inf'), or a number of minutes
Inf == [inf |-> TRUE, minutes |-> 0]
Finite(n) == [inf |-> FALSE, minutes |-> n]

\* parse_time(task.time): inf for None and "", inf where the unpacking or
\* int raises ValueError, else hours * 60 + minutes
parse_time(time) ==
    IF time = None \/ Val(time) = <<>> THEN Inf
    ELSE LET pieces == split(Val(time), ":") IN
         IF Len(pieces) # 2 THEN Inf
         ELSE LET hours == int(pieces[1])
                  minutes == int(pieces[2])
              IN IF ~hours.ok \/ ~minutes.ok THEN Inf
                 ELSE Finite(hours.value * 60 + minutes.value)

\* key a < key b
timeKeyLess(a, b) == ~a.inf /\ (b.inf \/ a.minutes < b.minutes)

\* sorted() is stable: a task goes after every task whose key is not greater
insertByTime(h, sorted, t) ==
    LET before == {i \in 1..Len(sorted) :
                      ~timeKeyLess(parse_time(h[t].time), parse_time(h[sorted[i]].time))}
        n == Cardinality(before)
    IN SubSeq(sorted, 1, n) \o <<t>> \o SubSeq(sorted, n + 1, Len(sorted))

RECURSIVE sortedByTimeOnto(_, _, _)
sortedByTimeOnto(h, sorted, tasks) ==
    IF tasks = <<>> THEN sorted
    ELSE sortedByTimeOnto(h, insertByTime(h, sorted, Head(tasks)), Tail(tasks))

\* Scheduler.sortByTime
sortByTime(h, tasks) == sortedByTimeOnto(h, <<>>, tasks)

\* scheduler.sortByTime(pets[p].getTasks())
Scheduler_sortByTime(p) ==
    /\ lastCall' = Call("sortByTime", p, 0)
    /\ ret' = sortByTime(heap, pets[p].tasks)
    /\ UNCHANGED <<today, heap, pets, dailyTimeAval, schedule, conflicts>>

-----------------------------------------------------------------------------
(* class Scheduler: explainPlan, getScheduledTasksByCompletionStatus *)

\* the fixed text returned when self.schedule is empty
NoTasksScheduled == [text |-> "No tasks scheduled for today."]

\* the line of a task: "  - {name} ({duration} min) [Priority: {priority}]",
\* with " @ {time}" when the task has a time
taskLine(task) ==
    [name |-> task.name, duration |-> task.duration, priority |-> task.priority,
     time |-> IF hasTime(task.time) THEN task.time ELSE None]

\* total_time: the durations of the scheduled tasks, summed over the entries
RECURSIVE total_time(_, _)
total_time(h, pairs) ==
    IF pairs = <<>> THEN 0
    ELSE h[Head(pairs).task].duration + total_time(h, Tail(pairs))

\* Scheduler.explainPlan.  The report is the text built from the header, the
\* available time, a section per entry of self.schedule with a line per
\* task, the total time and the conflict section: here those parts.
explainPlan(h, ps, sched, budget, warnings) ==
    IF sched = <<>> THEN NoTasksScheduled
    ELSE [available |-> budget,
          pets |-> [i \in 1..Len(sched) |->
                      [name |-> ps[sched[i].pet].name,
                       species |-> ps[sched[i].pet].species,
                       tasks |-> [k \in 1..Len(sched[i].tasks) |->
                                    taskLine(h[sched[i].tasks[k]])]]],
          total_time |-> total_time(h, scheduledPairs(sched)),
          conflicts |-> warnings]

\* Scheduler.getScheduledTasksByCompletionStatus
RECURSIVE getScheduledTasksByCompletionStatus(_, _, _)
getScheduledTasksByCompletionStatus(h, sched, completed) ==
    IF sched = <<>> THEN <<>>
    ELSE FilterSeq(Head(sched).tasks,
                   {t \in Range(Head(sched).tasks) : h[t].completed = completed})
         \o getScheduledTasksByCompletionStatus(h, Tail(sched), completed)

\* scheduler.explainPlan()
Scheduler_explainPlan ==
    /\ lastCall' = Call("explainPlan", 0, 0)
    /\ ret' = explainPlan(heap, pets, schedule, dailyTimeAval, conflicts)
    /\ UNCHANGED <<today, heap, pets, dailyTimeAval, schedule, conflicts>>

\* scheduler.getScheduledTasksByCompletionStatus(completed)
Scheduler_getScheduledTasksByCompletionStatus(completed) ==
    /\ lastCall' = Call("getScheduledTasksByCompletionStatus", 0, 0)
    /\ ret' = getScheduledTasksByCompletionStatus(heap, schedule, completed)
    /\ UNCHANGED <<today, heap, pets, dailyTimeAval, schedule, conflicts>>

\* scheduler.detectScheduleConflicts(): the warnings are returned, not stored
Scheduler_detectScheduleConflicts ==
    /\ lastCall' = Call("detectScheduleConflicts", 0, 0)
    /\ ret' = detectScheduleConflicts(heap, pets, schedule)
    /\ UNCHANGED <<today, heap, pets, dailyTimeAval, schedule, conflicts>>

-----------------------------------------------------------------------------
(* Spec: an owner, from construction on, under every sequence of calls made *)
(* on one day.                                                              *)

Init ==
    /\ today = StartDate
    /\ heap = <<>>
    /\ pets = <<>>
    /\ dailyTimeAval = MaxBudget
    /\ schedule = <<>>
    /\ conflicts = <<>>
    /\ lastCall = Call("init", 0, 0)
    /\ ret = None

Next ==
    \/ \E k \in PetKinds : Owner_addPet(k[1], k[2])
    \/ \E b \in {1, MaxBudget} : Owner_updateTimeAval(b)
    \/ \E p \in 1..Len(pets), task \in TaskCatalog : Pet_addTask(p, task)
    \/ \E t \in 1..Len(heap) : Task_mark_complete(t)
    \/ \E p \in 1..Len(pets), t \in 1..Len(heap) : Pet_complete_task(p, t)
    \/ Scheduler_genDailyPlan
    \/ Scheduler_getConflictWarnings
    \/ Scheduler_explainPlan
    \/ \E completed \in BOOLEAN : Scheduler_getScheduledTasksByCompletionStatus(completed)
    \/ \E p \in 1..Len(pets) : Scheduler_sortByTime(p)
    \/ Scheduler_detectScheduleConflicts

Spec == Init /\ [][Next]_vars

-----------------------------------------------------------------------------
(* SpecPrio: prioritizeTasks and genDailyPlan on every list of up to MaxLen *)
(* due tasks of one pet, under every budget.                                *)

SeqsUpTo(S, n) == UNION {[1..k -> S] : k \in 0..n}

PrioTasks ==
    {Task("Feed", d, p, "feeding", DAILY, FALSE, None, None) :
        d \in 0..MaxDur, p \in 1..MaxPri}

InitPrio ==
    /\ today = StartDate
    /\ heap \in SeqsUpTo(PrioTasks, MaxLen)
    /\ pets = <<[Pet("Buddy", "dog") EXCEPT !.tasks = [i \in 1..Len(heap) |-> i]]>>
    /\ dailyTimeAval \in Budgets
    /\ schedule = <<>>
    /\ conflicts = <<>>
    /\ lastCall = Call("init", 0, 0)
    /\ ret = None

NextPrio ==
    \/ \E p \in 1..Len(pets) : Scheduler_prioritizeTasks(p)
    \/ Scheduler_genDailyPlan

SpecPrio == InitPrio /\ [][NextPrio]_vars

-----------------------------------------------------------------------------
(* What the claims about prioritizeTasks speak of. *)

\* the summed duration of a list of tasks
RECURSIVE Minutes(_)
Minutes(tasks) ==
    IF tasks = <<>> THEN 0 ELSE heap[Head(tasks)].duration + Minutes(Tail(tasks))

\* the list the last prioritizeTasks call was given
Given == pets[lastCall.pet].tasks

\* position i of the given list has its turn before position j: higher
\* priority, then shorter duration, then earlier in the list
TurnBefore(i, j) ==
    LET a == heap[Given[i]]
        b == heap[Given[j]]
    IN \/ a.priority > b.priority
       \/ a.priority = b.priority /\ a.duration < b.duration
       \/ a.priority = b.priority /\ a.duration = b.duration /\ i < j

\* the task at position i of the given list was returned
Selected(i) == \E k \in 1..Len(ret) : ret[k] = Given[i]

\* the minutes of the selected tasks whose turn came before position i
MinutesBefore(i) ==
    SumOver([j \in 1..Len(Given) |-> heap[Given[j]].duration],
            {j \in 1..Len(Given) : TurnBefore(j, i) /\ Selected(j)})

\* where in the given list a returned task stands
PositionOf(t) == CHOOSE i \in 1..Len(Given) : Given[i] = t

\* C1 as stated: the tasks prioritizeTasks returns, and the tasks
\* genDailyPlan schedules for each pet, sum to at most dailyTimeAval, under
\* every budget.
C1_WithinBudget ==
    /\ lastCall.op = "prioritizeTasks" => Minutes(ret) <= dailyTimeAval
    /\ lastCall.op = "genDailyPlan" =>
          \A i \in 1..Len(schedule) : Minutes(schedule[i].tasks) <= dailyTimeAval

\* C1, amended: the tasks prioritizeTasks returns, and the tasks genDailyPlan
\* schedules for each pet, sum to at most dailyTimeAval when some task is
\* selected, and to 0 when none is: to at most the larger of dailyTimeAval
\* and 0.
C1_WithinBudgetOrEmpty ==
    /\ lastCall.op = "prioritizeTasks" =>
          /\ ret # <<>> => Minutes(ret) <= dailyTimeAval
          /\ Minutes(ret) <= (IF dailyTimeAval > 0 THEN dailyTimeAval ELSE 0)
    /\ lastCall.op = "genDailyPlan" =>
          \A i \in 1..Len(schedule) :
              /\ schedule[i].tasks # <<>> =>
                    Minutes(schedule[i].tasks) <= dailyTimeAval
              /\ Minutes(schedule[i].tasks)
                    <= (IF dailyTimeAval > 0 THEN dailyTimeAval ELSE 0)

\* a plan that had to drop a task and kept another
C1_Witness ==
    /\ lastCall.op = "genDailyPlan"
    /\ Len(schedule) = 1
    /\ Len(schedule[1].tasks) >= 1
    /\ Len(schedule[1].tasks) < Len(pets[1].tasks)
    /\ Minutes(pets[1].tasks) > dailyTimeAval

\* C2: prioritizeTasks returns a task iff the minutes of the tasks selected
\* before its turn plus its own are at most dailyTimeAval; tasks that sum to
\* exactly the budget are all returned.
C2_SelectedIffFits ==
    lastCall.op = "prioritizeTasks" =>
        /\ \A i \in 1..Len(Given) :
              Selected(i) <=>
                  MinutesBefore(i) + heap[Given[i]].duration <= dailyTimeAval
        /\ Minutes(Given) = dailyTimeAval =>
              \A i \in 1..Len(Given) : Selected(i)
        /\ \A k \in 1..Len(ret) : \E i \in 1..Len(Given) : Given[i] = ret[k]

\* a task filled the budget to the minute and a later one was left out
C2_Witness ==
    /\ lastCall.op = "prioritizeTasks"
    /\ Len(ret) >= 2
    /\ Len(ret) < Len(Given)
    /\ Minutes(ret) = dailyTimeAval
    /\ heap[ret[Len(ret)]].duration > 0

\* C3: prioritizeTasks returns the selected tasks by priority descending, then
\* duration ascending, then position in the given list, each once, and it is
\* in this order that they had their turn: a task left out did not fit on top
\* of the selected tasks that come before it in this order.
C3_PriorityOrder ==
    lastCall.op = "prioritizeTasks" =>
        /\ \A k \in 1..Len(ret) : \E i \in 1..Len(Given) : Given[i] = ret[k]
        /\ \A k, l \in 1..Len(ret) :
              k < l => TurnBefore(PositionOf(ret[k]), PositionOf(ret[l]))
        /\ \A i \in 1..Len(Given) :
              ~Selected(i) =>
                  MinutesBefore(i) + heap[Given[i]].duration > dailyTimeAval

\* three tasks returned: a higher priority first, then two of the same
\* priority and duration in the order given, behind a longer task of the list
C3_Witness ==
    /\ lastCall.op = "prioritizeTasks"
    /\ Len(ret) = 3
    /\ heap[ret[1]].priority > heap[ret[2]].priority
    /\ heap[ret[1]].duration > heap[ret[2]].duration
    /\ heap[ret[2]].priority = heap[ret[3]].priority
    /\ heap[ret[2]].duration = heap[ret[3]].duration
    /\ PositionOf(ret[1]) = 3
    /\ PositionOf(ret[2]) < PositionOf(ret[3])

-----------------------------------------------------------------------------
(* SpecDue: isDueToday on a task of every frequency, last completed never  *)
(* or on any day of the years drawn, asked on every day of the first       *)
(* months of the last year.                                                *)

TodayDates ==
    {d \in Dates : d.year = BaseYear + YearSpan /\ d.month <= TodayMonths}

InitDue ==
    /\ today \in TodayDates
    /\ \E f \in Frequency, last \in {None} \cup {Some(d) : d \in Dates} :
          heap = <<Task("Feed", 1, 1, "feeding", f, FALSE, last, None)>>
    /\ pets = <<[Pet("Buddy", "dog") EXCEPT !.tasks = <<1>>]>>
    /\ dailyTimeAval = MaxBudget
    /\ schedule = <<>>
    /\ conflicts = <<>>
    /\ lastCall = Call("init", 0, 0)
    /\ ret = None

NextDue == \E t \in 1..Len(heap) : Task_isDueToday(t)

SpecDue == InitDue /\ [][NextDue]_vars

\* C5: isDueToday answers by the recurrence table: DAILY, due iff never
\* completed or last completed on another day than today; WEEKLY, due iff
\* never completed or last completed 7 days ago or more; AS_NEEDED, always
\* due.  The call changes no task.
C5_DueTable ==
    [][lastCall'.op = "isDueToday" =>
        LET task == heap[lastCall'.task]
            last == task.last_completed
        IN /\ heap' = heap
           /\ task.frequency = DAILY =>
                 (ret' <=> (last = None \/ Val(last) # today))
           /\ task.frequency = WEEKLY =>
                 (ret' <=> (last = None
                            \/ ToOrdinal(today) - ToOrdinal(Val(last)) >= 7))
           /\ task.frequency = AS_NEEDED => ret' = TRUE]_vars

\* a weekly task last completed exactly 7 days ago, found due
C5_Witness ==
    /\ lastCall.op = "isDueToday"
    /\ heap[lastCall.task].frequency = WEEKLY
    /\ heap[lastCall.task].last_completed # None
    /\ ToOrdinal(today) - ToOrdinal(Val(heap[lastCall.task].last_completed)) = 7
    /\ ret = TRUE

\* C6: a MONTHLY task is due iff it was never completed or the month of
\* last_completed is another month than today's, whatever the years: last
\* completed in the same month of an earlier year, it is not due.
C6_MonthlyByMonthOnly ==
    (lastCall.op = "isDueToday" /\ heap[lastCall.task].frequency = MONTHLY) =>
        LET last == heap[lastCall.task].last_completed IN
        /\ ret <=> (last = None \/ Val(last).month # today.month)
        /\ (last # None /\ Val(last).year < today.year
                /\ Val(last).month = today.month) => ret = FALSE

\* a monthly task last completed in today's month of an earlier year, not due
C6_Witness ==
    /\ lastCall.op = "isDueToday"
    /\ heap[lastCall.task].frequency = MONTHLY
    /\ heap[lastCall.task].last_completed # None
    /\ Val(heap[lastCall.task].last_completed).year < today.year
    /\ Val(heap[lastCall.task].last_completed).month = today.month
    /\ ret = FALSE

-----------------------------------------------------------------------------
(* SpecTask: mark_complete and complete_task, on a pet that holds a task of *)
(* every make (each field drawn, completed before or not) and a second     *)
(* task, and on a second pet that holds neither.                           *)

EarlierDate == [StartDate EXCEPT !.day = 1]

DrawnTasks ==
    {Task(name, duration, priority, taskType, frequency, completed, last, time) :
        name \in {"Feed", "Walk"}, duration \in 1..2, priority \in 1..2,
        taskType \in {"feeding", "exercise"}, frequency \in Frequency,
        completed \in BOOLEAN,
        last \in {None, Some(EarlierDate), Some(StartDate)},
        time \in {None, Some(T0900)}}

InitTask ==
    /\ today = StartDate
    /\ \E task \in DrawnTasks :
          heap = <<task, Task("Vet", 2, 2, "health", MONTHLY, FALSE, None, Some(T1400))>>
    /\ pets = <<[Pet("Buddy", "dog") EXCEPT !.tasks = <<1, 2>>], Pet("Whiskers", "cat")>>
    /\ dailyTimeAval = MaxBudget
    /\ schedule = <<>>
    /\ conflicts = <<>>
    /\ lastCall = Call("init", 0, 0)
    /\ ret = None

NextTask ==
    \/ \E t \in 1..Len(heap) : Task_mark_complete(t)
    \/ \E p \in 1..Len(pets), t \in 1..Len(heap) : Pet_complete_task(p, t)

SpecTask == InitTask /\ [][NextTask]_vars

\* the fields mark_complete is to leave alone are the same in a and b
SameMake(a, b) ==
    /\ a.name = b.name
    /\ a.duration = b.duration
    /\ a.priority = b.priority
    /\ a.taskType = b.taskType
    /\ a.frequency = b.frequency
    /\ a.time = b.time

\* C7: mark_complete sets completed to true and last_completed to today on
\* the receiver, whatever its frequency, and leaves its name, duration,
\* priority, taskType, frequency and time as they were.
C7_MarkCompleteFrame ==
    [][lastCall'.op = "mark_complete" =>
        LET t == lastCall'.task IN
        /\ heap'[t].completed = TRUE
        /\ heap'[t].last_completed = Some(today)
        /\ SameMake(heap'[t], heap[t])]_vars

\* an as-needed task with a time, completed by mark_complete
C7_Witness ==
    /\ lastCall.op = "mark_complete"
    /\ heap[lastCall.task].frequency = AS_NEEDED
    /\ heap[lastCall.task].time = Some(T0900)
    /\ heap[lastCall.task].completed
    /\ heap[lastCall.task].last_completed = Some(today)

\* C8: mark_complete returns a next instance iff the receiver is DAILY or
\* WEEKLY; the next instance is a Task that did not exist before, so another
\* object than the receiver, with the receiver's name, duration, priority,
\* taskType, frequency and time, completed = false and last_completed unset.
C8_NextInstance ==
    [][lastCall'.op = "mark_complete" =>
        LET t == lastCall'.task IN
        /\ (ret' # None) <=> (heap[t].frequency \in {DAILY, WEEKLY})
        /\ ret' # None =>
              LET n == Val(ret') IN
              /\ n \notin DOMAIN heap
              /\ n \in DOMAIN heap'
              /\ n # t
              /\ SameMake(heap'[n], heap[t])
              /\ heap'[n].completed = FALSE
              /\ heap'[n].last_completed = None]_vars

\* a weekly task that had been completed before, and its fresh next instance
C8_Witness ==
    /\ lastCall.op = "mark_complete"
    /\ heap[lastCall.task].frequency = WEEKLY
    /\ heap[lastCall.task].time = Some(T0900)
    /\ ret # None
    /\ Val(ret) = Len(heap)
    /\ heap[Val(ret)].completed = FALSE
    /\ heap[lastCall.task].completed = TRUE

\* C9: complete_task completes the task; for a DAILY or WEEKLY task it
\* returns the next instance and the pet's list is the old list with the
\* next instance appended; for a MONTHLY or AS_NEEDED task it returns
\* nothing and the list is the old list.  Either way every task of the old
\* list is where it was.
C9_CompleteTaskAppends ==
    [][lastCall'.op = "complete_task" =>
        LET t == lastCall'.task
            old == pets[lastCall'.pet].tasks
            new == pets'[lastCall'.pet].tasks
        IN /\ heap'[t].completed = TRUE
           /\ heap'[t].last_completed = Some(today)
           /\ heap[t].frequency \in {DAILY, WEEKLY} =>
                 /\ ret' # None
                 /\ Val(ret') \notin DOMAIN heap
                 /\ Val(ret') \in DOMAIN heap'
                 /\ Len(new) = Len(old) + 1
                 /\ new[Len(new)] = Val(ret')
           /\ heap[t].frequency \in {MONTHLY, AS_NEEDED} =>
                 /\ ret' = None
                 /\ new = old
           /\ Len(new) >= Len(old)
           /\ \A i \in 1..Len(old) : new[i] = old[i]]_vars

\* a daily task of a list of two completed: the list now ends in its next
\* instance, behind the two
C9_Witness ==
    /\ lastCall.op = "complete_task"
    /\ heap[lastCall.task].frequency = DAILY
    /\ ret # None
    /\ pets[lastCall.pet].tasks = <<1, 2, Val(ret)>>
    /\ lastCall.task \in {1, 2}

-----------------------------------------------------------------------------
(* SpecPlan: genDailyPlan and getConflictWarnings for two pets that share  *)
(* up to MaxPlanTasks due tasks in every way, each task with no time, an   *)
(* empty time or one of two times, under budgets that drop some of them.   *)

PlanTimes == {None, Some(EmptyStr), Some(T0900), Some(T1400)}

PlanName(i) == IF i % 2 = 1 THEN "Feed" ELSE "Walk"

InitPlan ==
    /\ today = StartDate
    /\ \E n \in 0..MaxPlanTasks :
        \E times \in [1..n -> PlanTimes], durations \in [1..n -> 1..2],
           owners \in [1..n -> 1..2] :
            /\ heap = [i \in 1..n |->
                        Task(PlanName(i), durations[i], 1, "feeding", DAILY,
                             FALSE, None, times[i])]
            /\ pets = <<[Pet("Buddy", "dog") EXCEPT
                            !.tasks = FilterSeq([i \in 1..n |-> i],
                                                {i \in 1..n : owners[i] = 1})],
                        [Pet("Whiskers", "cat") EXCEPT
                            !.tasks = FilterSeq([i \in 1..n |-> i],
                                                {i \in 1..n : owners[i] = 2})]>>
    /\ dailyTimeAval \in 1..MaxBudget
    /\ schedule = <<>>
    /\ conflicts = <<>>
    /\ lastCall = Call("init", 0, 0)
    /\ ret = None

NextPlan ==
    \/ Scheduler_genDailyPlan
    \/ Scheduler_getConflictWarnings

SpecPlan == InitPlan /\ [][NextPlan]_vars

\* the places of the plan: entry i, position k of its task list
Scheduled ==
    UNION {{<<i, k>> : k \in 1..Len(schedule[i].tasks)} : i \in 1..Len(schedule)}

ScheduledTask(o) == heap[schedule[o[1]].tasks[o[2]]]

\* the places of the plan whose task carries the time string time
ScheduledAt(time) ==
    {o \in Scheduled : ScheduledTask(o).time = Some(time)}

\* how a warning names the task at a place of the plan
NamedAs(o) ==
    [pet_name |-> pets[schedule[o[1]].pet].name,
     task_name |-> ScheduledTask(o).name]

\* the time strings carried by two or more scheduled tasks
ConflictTimes ==
    {time \in {Val(x) : x \in PlanTimes \ {None}} \ {EmptyStr} :
        Cardinality(ScheduledAt(time)) >= 2}

\* C10: the cached warnings, which getConflictWarnings returns, are one for
\* each time string that two or more scheduled tasks carry, of one pet or of
\* several, and no other; the warning for a time names the pet and the task
\* of each scheduled task at that time, once per task, and no other.  A task
\* is counted once for each place it holds in the plan.
C10_ConflictWarnings ==
    /\ \A time \in ConflictTimes :
          Cardinality({k \in 1..Len(conflicts) :
                          conflicts[k].scheduled_time = time}) = 1
    /\ \A k \in 1..Len(conflicts) :
          LET w == conflicts[k] IN
          /\ w.scheduled_time \in ConflictTimes
          /\ Len(w.task_list) = Cardinality(ScheduledAt(w.scheduled_time))
          /\ \A o \in ScheduledAt(w.scheduled_time) :
                Cardinality({j \in 1..Len(w.task_list) : w.task_list[j] = NamedAs(o)})
                    = Cardinality({q \in ScheduledAt(w.scheduled_time) :
                                      NamedAs(q) = NamedAs(o)})
    /\ lastCall.op = "getConflictWarnings" => ret = conflicts

\* three tasks at 14:00: one of each pet scheduled, one dropped for the
\* budget; the one warning names the two scheduled tasks and their pets
C10_Witness ==
    /\ lastCall.op = "getConflictWarnings"
    /\ Len(schedule) = 2
    /\ Len(ret) = 1
    /\ ret[1].scheduled_time = T1400
    /\ Len(ret[1].task_list) = 2
    /\ ret[1].task_list[1].pet_name = "Buddy"
    /\ ret[1].task_list[2].pet_name = "Whiskers"
    /\ \A t \in 1..Len(heap) : heap[t].time = Some(T1400)
    /\ Len(heap) = 3

-----------------------------------------------------------------------------
(* SpecSort: sortByTime on every list of up to MaxSortLen tasks whose times *)
(* are unset, empty, times of day, or strings that are no time of day.      *)

T2599 == <<"2", "5", ":", "9", "9">>
TMinus0130 == <<"-", "1", ":", "3", "0">>
TLetters == <<"a", "b", ":", "c", "d">>
TNoColon == <<"1", "2">>

SortTimes ==
    {None, Some(EmptyStr), Some(T0900), Some(T1400),
     Some(T2599), Some(TMinus0130), Some(TLetters), Some(TNoColon)}

InitSort ==
    /\ today = StartDate
    /\ \E n \in 0..MaxSortLen : \E times \in [1..n -> SortTimes] :
          heap = [i \in 1..n |->
                    Task(PlanName(i), 1, 1, "feeding", DAILY, FALSE, None, times[i])]
    /\ pets = <<[Pet("Buddy", "dog") EXCEPT !.tasks = [i \in 1..Len(heap) |-> i]]>>
    /\ dailyTimeAval = MaxBudget
    /\ schedule = <<>>
    /\ conflicts = <<>>
    /\ lastCall = Call("init", 0, 0)
    /\ ret = None

NextSort == \E p \in 1..Len(pets) : Scheduler_sortByTime(p)

SpecSort == InitSort /\ [][NextSort]_vars

\* "HH:MM" for a time of day
HHMM(hh, mm) ==
    <<Digits[(hh \div 10) + 1], Digits[(hh % 10) + 1], ":",
      Digits[(mm \div 10) + 1], Digits[(mm % 10) + 1]>>

\* the valid times of day, 00:00 to 23:59
ValidTimes == {Some(HHMM(hh, mm)) : hh \in 0..23, mm \in 0..59}

\* minutes since midnight of a valid time of day
MinutesSinceMidnight(time) ==
    CHOOSE n \in 0..1439 : Some(HHMM(n \div 60, n % 60)) = time

\* C11 as stated: sortByTime returns the tasks it was given, each once; the
\* tasks with a valid time of day come first, by minutes since midnight and,
\* at the same minute, in the order given; the tasks whose time is unset or
\* not a valid time of day come after all of them, in the order given.
C11_SortByTime ==
    lastCall.op = "sortByTime" =>
        /\ Len(ret) = Len(Given)
        /\ \A i \in 1..Len(Given) : Selected(i)
        /\ \A k, l \in 1..Len(ret) :
              k < l =>
                LET a == heap[ret[k]].time
                    b == heap[ret[l]].time
                IN /\ (a \in ValidTimes /\ b \in ValidTimes) =>
                         \/ MinutesSinceMidnight(a) < MinutesSinceMidnight(b)
                         \/ /\ MinutesSinceMidnight(a) = MinutesSinceMidnight(b)
                            /\ PositionOf(ret[k]) < PositionOf(ret[l])
                   /\ ~(a \notin ValidTimes /\ b \in ValidTimes)
                   /\ (a \notin ValidTimes /\ b \notin ValidTimes) =>
                         PositionOf(ret[k]) < PositionOf(ret[l])

-----------------------------------------------------------------------------
(* What the claims about the plan of a day speak of; they are checked under *)
(* Spec.                                                                     *)

\* the positions of pet p's list that hold a task due today
DuePositions(p) ==
    {i \in 1..Len(pets[p].tasks) : isDueToday(heap[pets[p].tasks[i]], today)}

\* the pets that have a task due today
PetsWithDueTask == {p \in 1..Len(pets) : DuePositions(p) # {}}

\* C12: genDailyPlan returns one pair for each pet that has a task due today
\* and for no other pet, in the order the pets were added; the pair of a pet
\* holds all its due tasks, in the order of the pet's list, whether the
\* budget lets them be scheduled or not.  With no pets it returns nothing.
C12_ReturnsDuePairs ==
    lastCall.op = "genDailyPlan" =>
        /\ {ret[k].pet : k \in 1..Len(ret)} = PetsWithDueTask
        /\ \A k, l \in 1..Len(ret) : k < l => ret[k].pet < ret[l].pet
        /\ \A k \in 1..Len(ret) :
              LET p == ret[k].pet
                  list == pets[p].tasks
              IN /\ ret[k].tasks # <<>>
                 /\ Len(ret[k].tasks) = Cardinality(DuePositions(p))
                 /\ \A n \in 1..Len(ret[k].tasks) :
                       \E i \in DuePositions(p) :
                           /\ list[i] = ret[k].tasks[n]
                           /\ Cardinality({j \in DuePositions(p) : j < i}) = n - 1
        /\ pets = <<>> => ret = <<>>

\* the first pet has a task, not due; the second has two due tasks and the
\* budget has room for one: the one pair returned is the second pet with both
C12_Witness ==
    /\ lastCall.op = "genDailyPlan"
    /\ Len(pets) = 2
    /\ pets[1].tasks # <<>>
    /\ Len(ret) = 1
    /\ ret[1].pet = 2
    /\ Len(ret[1].tasks) = 2
    /\ Len(schedule) = 1
    /\ Len(schedule[1].tasks) = 1

\* C13 as stated: explainPlan returns the fixed text exactly when the plan
\* holds no scheduled task: none generated yet, no pet, no task due, or no
\* task that fits the budget; it renders the report only when some task is
\* scheduled.
C13_FixedTextIffNoTask ==
    lastCall.op = "explainPlan" => (ret = NoTasksScheduled <=> Scheduled = {})

\* position i of pet p's list has its turn before position j: higher
\* priority, then shorter duration, then earlier in the list
PetTurnBefore(p, i, j) ==
    LET a == heap[pets[p].tasks[i]]
        b == heap[pets[p].tasks[j]]
    IN \/ a.priority > b.priority
       \/ a.priority = b.priority /\ a.duration < b.duration
       \/ a.priority = b.priority /\ a.duration = b.duration /\ i < j

\* the task at position i of its pet's list is in entry e of the plan
InEntry(e, i) ==
    \E k \in 1..Len(schedule[e].tasks) :
        schedule[e].tasks[k] = pets[schedule[e].pet].tasks[i]

\* the minutes entry e gives to the tasks whose turn came before position i
EntryMinutesBefore(e, i) ==
    LET p == schedule[e].pet IN
    SumOver([j \in 1..Len(pets[p].tasks) |-> heap[pets[p].tasks[j]].duration],
            {j \in DuePositions(p) : PetTurnBefore(p, j, i) /\ InEntry(e, j)})

\* C14: after genDailyPlan the entry of each pet is the selection made among
\* that pet's due tasks alone with all of dailyTimeAval: a due task is in it
\* iff the minutes of the pet's own tasks selected before its turn plus its
\* own are at most dailyTimeAval, whatever the other pets were given; the
\* entry holds due tasks of the pet only, each once, in the order of turns.
C14_PerPetFullBudget ==
    lastCall.op = "genDailyPlan" =>
        \A e \in 1..Len(schedule) :
            LET p == schedule[e].pet
                tasks == schedule[e].tasks
            IN /\ \A i \in DuePositions(p) :
                      InEntry(e, i) <=>
                          EntryMinutesBefore(e, i) + heap[pets[p].tasks[i]].duration
                              <= dailyTimeAval
               /\ Len(tasks) = Cardinality({i \in DuePositions(p) : InEntry(e, i)})
               /\ \A k \in 1..Len(tasks) :
                      \E i \in DuePositions(p) : pets[p].tasks[i] = tasks[k]
               /\ \A k, l \in 1..Len(tasks) :
                      k < l =>
                        \E i, j \in DuePositions(p) :
                            /\ pets[p].tasks[i] = tasks[k]
                            /\ pets[p].tasks[j] = tasks[l]
                            /\ PetTurnBefore(p, i, j)

\* two pets, each given a task that uses up the whole budget
C14_Witness ==
    /\ lastCall.op = "genDailyPlan"
    /\ Len(schedule) = 2
    /\ Minutes(schedule[1].tasks) = dailyTimeAval
    /\ Minutes(schedule[2].tasks) = dailyTimeAval
    /\ dailyTimeAval > 0

-----------------------------------------------------------------------------
(* The greedy scan of prioritizeTasks, checked under SpecPrio. *)

\* position j of the given list comes, in the order of turns, after a task
\* of higher priority that was skipped
AfterSkippedHigherPriority(j) ==
    \E i \in 1..Len(Given) :
        /\ TurnBefore(i, j)
        /\ ~Selected(i)
        /\ heap[Given[i]].priority > heap[Given[j]].priority

\* C15 as stated: once a task of higher priority has been skipped, no later
\* task of lower priority is selected, even one that fits what is left.
C15_NoneSelectedAfterSkip ==
    lastCall.op = "prioritizeTasks" =>
        \A j \in 1..Len(Given) : AfterSkippedHigherPriority(j) => ~Selected(j)

\* C15, amended: a skip does not end the scan and takes no minutes: a task
\* of lower priority that comes after a skipped task of higher priority is
\* selected iff its duration is at most what the tasks selected before its
\* turn leave of dailyTimeAval; the skipped task itself is not returned.
C15_SelectedAfterSkipIffFits ==
    lastCall.op = "prioritizeTasks" =>
        \A j \in 1..Len(Given) :
            AfterSkippedHigherPriority(j) =>
                /\ Selected(j) <=>
                      heap[Given[j]].duration <= dailyTimeAval - MinutesBefore(j)
                /\ \A i \in 1..Len(Given) :
                      (TurnBefore(i, j) /\ ~Selected(i)) =>
                          \A k \in 1..Len(ret) : ret[k] # Given[i]

\* a task of the higher priority selected, a longer one of the same priority
\* skipped, then a task of lower priority selected into what was left
C15_Witness ==
    /\ lastCall.op = "prioritizeTasks"
    /\ Len(Given) = 3
    /\ Len(ret) = 2
    /\ heap[ret[1]].priority > heap[ret[2]].priority
    /\ heap[ret[2]].duration > 0
    /\ AfterSkippedHigherPriority(PositionOf(ret[2]))

-----------------------------------------------------------------------------
(* Completion and the plan over sequences of calls, checked under Spec. *)

\* C16: in every step of every sequence of calls a completed task stays
\* completed, and a next instance made by mark_complete or complete_task
\* starts with completed = false.
C16_CompletionOneWay ==
    [][/\ \A t \in DOMAIN heap :
              heap[t].completed => (t \in DOMAIN heap' /\ heap'[t].completed)
       /\ lastCall'.op \in {"mark_complete", "complete_task"} =>
              \A n \in (DOMAIN heap') \ (DOMAIN heap) : heap'[n].completed = FALSE]_vars

\* a task completed, its next instance completed in turn, and the next
\* instance of that one fresh
C16_Witness ==
    /\ lastCall.op = "mark_complete"
    /\ lastCall.task = 2
    /\ Len(heap) = 3
    /\ heap[1].completed
    /\ heap[2].completed
    /\ ~heap[3].completed
    /\ SameMake(heap[1], heap[2])
    /\ SameMake(heap[2], heap[3])

C18_PlanRebuilt ==
    lastCall.op = "genDailyPlan" =>
        /\ {schedule[e].pet : e \in 1..Len(schedule)} = PetsWithDueTask
        /\ Len(schedule) = Cardinality(PetsWithDueTask)
        /\ \A e \in 1..Len(schedule) : \A k \in 1..Len(schedule[e].tasks) :
              \E i \in DuePositions(schedule[e].pet) :
                  pets[schedule[e].pet].tasks[i] = schedule[e].tasks[k]
        /\ {conflicts[k].scheduled_time : k \in 1..Len(conflicts)} = ConflictTimes
        /\ Len(conflicts) = Cardinality(ConflictTimes)
        /\ \A k \in 1..Len(conflicts) :
              Len(conflicts[k].task_list)
                  = Cardinality(ScheduledAt(conflicts[k].scheduled_time))

\* a plan made after a completion, for two pets of the same name and species:
\* one entry each, the completed task in neither, no warning left
C18_Witness ==
    /\ lastCall.op = "genDailyPlan"
    /\ Len(pets) = 2
    /\ pets[1].name = pets[2].name
    /\ pets[1].species = pets[2].species
    /\ Len(schedule) = 2
    /\ \E t \in Range(pets[1].tasks) :
          heap[t].completed /\ heap[t].time = Some(T0900) /\ ~isDueToday(heap[t], today)
    /\ conflicts = <<>>
    /\ Scheduled # {}

\* C19: a step of any call but genDailyPlan leaves the plan and the cached
\* warnings as they were: the same entries, the same tasks for the same
\* pets, the same warnings.
C19_PlanFrozen ==
    [][lastCall'.op # "genDailyPlan" =>
          (schedule' = schedule /\ conflicts' = conflicts)]_vars

\* the budget was lowered after the plan was made: the plan still holds the
\* tasks, which no longer fit, and its warning
C19_Witness ==
    /\ lastCall.op = "updateTimeAval"
    /\ \E e \in 1..Len(schedule) : Minutes(schedule[e].tasks) > dailyTimeAval
    /\ conflicts # <<>>

\* C20: every complete_task call on a DAILY or WEEKLY task, also on a task
\* that is completed already or is not in the list of the pet called, makes
\* one new task and appends it to that pet's list and to no other, so each
\* further call on the same task leaves one more next instance in the list.
C20_CompleteTaskUnguarded ==
    [][(lastCall'.op = "complete_task"
            /\ heap[lastCall'.task].frequency \in {DAILY, WEEKLY}) =>
          LET p == lastCall'.pet IN
          /\ Len(heap') = Len(heap) + 1
          /\ ret' = Some(Len(heap'))
          /\ pets'[p].tasks = Append(pets[p].tasks, Len(heap'))
          /\ \A q \in 1..Len(pets) : q # p => pets'[q].tasks = pets[q].tasks
          /\ \A q \in 1..Len(pets) : Len(heap') \notin Range(pets[q].tasks)]_vars

\* two calls on the first pet's task made through the second pet, which does
\* not hold it: the second pet's list is the two next instances
C20_Witness ==
    /\ lastCall.op = "complete_task"
    /\ lastCall.pet = 2
    /\ lastCall.task = 1
    /\ pets[1].tasks = <<1>>
    /\ pets[2].tasks = <<2, 3>>
    /\ heap[1].completed
    /\ SameMake(heap[2], heap[1]) /\ ~heap[2].completed
    /\ SameMake(heap[3], heap[1]) /\ ~heap[3].completed

====
